---- MODULE Spec2Model ----
(***************************************************************************)
(* Gaussian-process conditioning of notebooks/3d-Gaussian-Processes.ipynb: *)
(* exponential_cov, conditional and predict, with the numpy operations     *)
(* they are built from (subtract.outer, exp, dot, T, linalg.inv, squeeze). *)
(*                                                                         *)
(* Numbers.  A float is modelled as an exact rational <<num, den>> in      *)
(* lowest terms with den > 0.  Points, outputs and amplitudes are          *)
(* integer-valued.  The lengthscale entry of the hyperparameter list is    *)
(* measured in units of 2*ln(2): an entry t stands for the float           *)
(* 2*ln(2)*t, so that -0.5 * params[1] * d**2 is the multiple -t*d^2 of    *)
(* ln(2) and np.exp of it is the power of two 2^(-t*d^2).  Rounding,       *)
(* overflow and underflow of binary floating point are not modelled.       *)
(*                                                                         *)
(* Arrays.  A numpy array is a record [shape, v]: its shape (a sequence of *)
(* naturals: <<>> for a 0-d array, <<n>>, <<m, n>>) and its entries in     *)
(* row-major order.  Python lists are sequences; list index k of the       *)
(* source is sequence index k+1 here.                                      *)
(*                                                                         *)
(* Exceptions.  A call yields a record whose field err is "none" or the    *)
(* name of the exception that ended it: IndexError (list index out of      *)
(* range), LinAlgError (np.linalg.inv of a singular matrix), ValueError    *)
(* (np.dot on shapes that are not aligned).                                *)
(***************************************************************************)
EXTENDS Integers, Sequences, FiniteSets

VARIABLES x_new, x, y, theta, ret,
          pc, sigma_0, sigma_1, sigma_2, sigma_more, y2, y_more, predictions, passed

\* the names the cells of the sequential-sampling section assign, and pc, the
\* statement the notebook run has reached
cells == <<pc, sigma_0, sigma_1, sigma_2, sigma_more, y2, y_more, predictions, passed>>

vars == <<x_new, x, y, theta, ret, cells>>

(***************************************************************************)
(* Bounds of the explored inputs.                                          *)
(***************************************************************************)
MaxObs == 2
MaxNew == 2

Points == {0, 1, 2}
Outputs == {-1, 2}

\* hyperparameter lists handed to exponential_cov: well-formed, too short, too
\* long, and with a zero or negative amplitude or lengthscale
Thetas == { <<>>, <<1>>, <<1, 1>>, <<2, 1>>, <<1, 0>>, <<1, -1>>,
            <<0, 1>>, <<-1, 1>>, <<1, 1, 5>> }

\* hyperparameter lists handed to conditional and predict
ThetasCond == { <<1>>, <<1, 1>>, <<2, 1>>, <<1, 0>>, <<0, 1>> }

RECURSIVE SeqsUpTo(_, _)
SeqsUpTo(S, n) ==
    IF n = 0 THEN { <<>> }
    ELSE LET shorter == SeqsUpTo(S, n - 1)
         IN  shorter \cup { Append(s, e) : s \in { t \in shorter : Len(t) = n - 1 }, e \in S }

\* ascending lists of distinct points, as x_more and x_pred of the notebook are
Ascending(S, n) == { s \in SeqsUpTo(S, n) : \A i \in 1..(Len(s) - 1) : s[i] < s[i + 1] }

(***************************************************************************)
(* Rational arithmetic.                                                    *)
(***************************************************************************)
Abs(n) == IF n < 0 THEN -n ELSE n

RECURSIVE GCD(_, _)
GCD(a, b) == IF b = 0 THEN a ELSE GCD(b, a % b)

Rat(n, d) ==
    LET g == GCD(Abs(n), Abs(d))
        s == IF d < 0 THEN -1 ELSE 1
    IN  <<(s * n) \div g, (s * d) \div g>>

FromInt(n) == <<n, 1>>
Zero == FromInt(0)

RAdd(a, b) ==
    LET g == GCD(a[2], b[2])
    IN  Rat(a[1] * (b[2] \div g) + b[1] * (a[2] \div g), a[2] * (b[2] \div g))

RNeg(a) == <<-a[1], a[2]>>

RSub(a, b) == RAdd(a, RNeg(b))

RMul(a, b) ==
    LET g1 == GCD(Abs(a[1]), b[2])
        g2 == GCD(Abs(b[1]), a[2])
    IN  <<(a[1] \div g1) * (b[1] \div g2), (a[2] \div g2) * (b[2] \div g1)>>

RRecip(a) == IF a[1] < 0 THEN <<-a[2], -a[1]>> ELSE <<a[2], a[1]>>

RLess(a, b) == a[1] * b[2] < b[1] * a[2]

RECURSIVE Pow2(_)
Pow2(e) == IF e = 0 THEN 1 ELSE 2 * Pow2(e - 1)

\* np.exp(z * ln 2) for an integer z
NpExp(z) == IF z >= 0 THEN <<Pow2(z), 1>> ELSE <<1, Pow2(-z)>>

RECURSIVE RSum(_, _)
\* f[1] + ... + f[n]
RSum(f, n) == IF n = 0 THEN Zero ELSE RAdd(RSum(f, n - 1), f[n])

(***************************************************************************)
(* numpy arrays.                                                           *)
(***************************************************************************)
RECURSIVE Entries(_, _)
\* the entries f[1], ..., f[n] as a sequence
Entries(f, n) == IF n = 0 THEN <<>> ELSE Append(Entries(f, n - 1), f[n])

Arr(shape, v) == [shape |-> shape, v |-> v]

Ndim(a) == Len(a.shape)

\* a 0-d array
Scalar(r) == Arr(<<>>, <<r>>)

\* np.asarray of a Python list of numbers
AsArray(list) == Arr(<<Len(list)>>, Entries([k \in 1..Len(list) |-> FromInt(list[k])], Len(list)))

\* np.asarray of a Python list of 0-d arrays
Stack(list) == Arr(<<Len(list)>>, Entries([k \in 1..Len(list) |-> list[k].v[1]], Len(list)))

\* entry [i][j] of a 2-d array
At(a, i, j) == a.v[(i - 1) * a.shape[2] + j]

\* the 2-d array of shape <<m, n>> with entries e[i, j]
Mat(m, n, e) ==
    Arr(<<m, n>>,
        Entries([p \in 1..(m * n) |-> e[((p - 1) \div n) + 1, ((p - 1) % n) + 1]], m * n))

\* np.subtract.outer with the roles of its arguments exchanged
SubtractOuter_transposed(a, b) ==
    Mat(b.shape[1], a.shape[1],
        [i \in 1..b.shape[1], j \in 1..a.shape[1] |-> RSub(a.v[j], b.v[i])])

\* np.subtract.outer of two 1-d arrays
SubtractOuter(a, b) ==
    Mat(a.shape[1], b.shape[1],
        [i \in 1..a.shape[1], j \in 1..b.shape[1] |-> RSub(a.v[i], b.v[j])])

\* the kernel without the square: params[0] * np.exp(-0.5 * params[1] * d)
KernelOf_nosquare(d, params) ==
    RMul(FromInt(params[1]), NpExp(-(params[2] * d[1])))

\* the kernel with the amplitude read at the wrong index: params[1] * np.exp(...)
KernelOf_index(d, params) ==
    RMul(FromInt(params[2]), NpExp(-(params[2] * (d[1] * d[1]))))

\* params[0] * np.exp(-0.5 * params[1] * d**2) of one entry d (an integer)
KernelOf(d, params) ==
    RMul(FromInt(params[1]), NpExp(-(params[2] * (d[1] * d[1]))))

\* the element-wise part of the return expression of exponential_cov
CovOfDiff(diff, params) ==
    Arr(diff.shape, Entries([p \in 1..Len(diff.v) |-> KernelOf(diff.v[p], params)], Len(diff.v)))

Ok(val) == [err |-> "none", val |-> val]
Raise(e) == [err |-> e, val |-> Scalar(Zero)]

\* exponential_cov on two sequences of points
exponential_cov(a, b, params) ==
    IF Len(params) < 2 THEN Raise("IndexError")
    ELSE Ok(CovOfDiff(SubtractOuter(AsArray(a), AsArray(b)), params))

\* the scalar kernel with the absolute difference in place of its square
kernel_abs(u, v, params) ==
    IF Len(params) < 2 THEN Raise("IndexError")
    ELSE Ok(Scalar(RMul(FromInt(params[1]), NpExp(-(params[2] * Abs(u - v))))))

\* exponential_cov on two scalars: np.subtract.outer of scalars is 0-d
kernel(u, v, params) ==
    IF Len(params) < 2 THEN Raise("IndexError")
    ELSE Ok(CovOfDiff(Scalar(FromInt(u - v)), params))

(***************************************************************************)
(* numpy linear algebra.                                                   *)
(***************************************************************************)
\* a.T: the transpose of a 2-d array; a 1-d array is its own transpose
T(a) ==
    IF Ndim(a) = 2
    THEN Mat(a.shape[2], a.shape[1],
             [i \in 1..a.shape[2], j \in 1..a.shape[1] |-> At(a, j, i)])
    ELSE a

\* a + b in place of a - b
ASub_add(a, b) ==
    Arr(a.shape, Entries([p \in 1..Len(a.v) |-> RAdd(a.v[p], b.v[p])], Len(a.v)))

\* a - b on arrays of one shape
ASub(a, b) ==
    Arr(a.shape, Entries([p \in 1..Len(a.v) |-> RSub(a.v[p], b.v[p])], Len(a.v)))

\* a.squeeze(): the axes of length 1 are dropped
Squeeze(a) == Arr(SelectSeq(a.shape, LAMBDA d : d # 1), a.v)

\* np.dot accepts a and b: the last axis of a is as long as the first axis of b
DotAligned(a, b) == a.shape[Ndim(a)] = b.shape[1]

\* np.dot(a, b) on aligned arrays of 1 or 2 dimensions
Dot(a, b) ==
    LET n == b.shape[1]
    IN  CASE Ndim(a) = 2 /\ Ndim(b) = 2 ->
               Mat(a.shape[1], b.shape[2],
                   [i \in 1..a.shape[1], j \in 1..b.shape[2] |->
                       RSum([l \in 1..n |-> RMul(At(a, i, l), At(b, l, j))], n)])
          [] Ndim(a) = 2 /\ Ndim(b) = 1 ->
               Arr(<<a.shape[1]>>,
                   Entries([i \in 1..a.shape[1] |->
                               RSum([l \in 1..n |-> RMul(At(a, i, l), b.v[l])], n)],
                           a.shape[1]))
          [] Ndim(a) = 1 /\ Ndim(b) = 2 ->
               Arr(<<b.shape[2]>>,
                   Entries([j \in 1..b.shape[2] |->
                               RSum([l \in 1..n |-> RMul(a.v[l], At(b, l, j))], n)],
                           b.shape[2]))
          [] Ndim(a) = 1 /\ Ndim(b) = 1 ->
               Scalar(RSum([l \in 1..n |-> RMul(a.v[l], b.v[l])], n))

\* the square array a without row i and column j
Minor(a, i, j) ==
    Mat(a.shape[1] - 1, a.shape[1] - 1,
        [r \in 1..(a.shape[1] - 1), c \in 1..(a.shape[1] - 1) |->
            At(a, IF r < i THEN r ELSE r + 1, IF c < j THEN c ELSE c + 1)])

RECURSIVE Det(_)
\* the determinant of a square array, by expansion along the first row
Det(a) ==
    LET n == a.shape[1]
    IN  IF n = 0 THEN FromInt(1)
        ELSE IF n = 1 THEN a.v[1]
        ELSE RSum([j \in 1..n |->
                      LET t == RMul(At(a, 1, j), Det(Minor(a, 1, j)))
                      IN  IF j % 2 = 1 THEN t ELSE RNeg(t)], n)

\* an inverse that also refuses the empty 0x0 array
Singular_empty(a) == a.shape[1] = 0 \/ Det(a) = Zero

\* np.linalg.inv raises LinAlgError("Singular matrix") on a
Singular(a) == a.shape[1] > 0 /\ Det(a) = Zero

\* the adjugate of a: the inverse without the division by the determinant
Inv_adjugate(a) ==
    LET n == a.shape[1]
    IN  Mat(n, n, [i \in 1..n, j \in 1..n |->
                      LET c == Det(Minor(a, j, i))
                      IN  IF (i + j) % 2 = 0 THEN c ELSE RNeg(c)])

\* np.linalg.inv(a) of a square array that is not singular; 0x0 gives 0x0
Inv(a) ==
    LET n == a.shape[1]
        r == RRecip(Det(a))
    IN  Mat(n, n, [i \in 1..n, j \in 1..n |->
                      LET c == RMul(Det(Minor(a, j, i)), r)
                      IN  IF (i + j) % 2 = 0 THEN c ELSE RNeg(c)])

(***************************************************************************)
(* conditional and predict.  A result is [err, mu, sigma]: the exception   *)
(* that ended the call, or "none" and the pair returned.                   *)
(***************************************************************************)
NoArr == Scalar(Zero)

Fail(e) == [err |-> e, mu |-> NoArr, sigma |-> NoArr]
Return(mu, sigma) == [err |-> "none", mu |-> mu, sigma |-> sigma]

\* conditional with C in place of its inverse
conditional_noinv(xn, xs, ys, params) ==
    LET B == exponential_cov(xn, xs, params)
        C == exponential_cov(xs, xs, params)
        A == exponential_cov(xn, xn, params)
        W == Dot(C.val, T(B.val))
        mu == Dot(T(W), AsArray(ys))
        sigma == ASub(A.val, Dot(B.val, W))
    IN  IF B.err # "none" THEN Fail(B.err)
        ELSE IF Singular(C.val) THEN Fail("LinAlgError")
        ELSE IF ~DotAligned(T(W), AsArray(ys)) THEN Fail("ValueError")
        ELSE Return(Squeeze(mu), Squeeze(sigma))

\* conditional that fits y to the length of x (cut, or filled with zeros)
\* where np.dot would refuse it
conditional_fit(xn, xs, ys, params) ==
    LET B == exponential_cov(xn, xs, params)
        C == exponential_cov(xs, xs, params)
        A == exponential_cov(xn, xn, params)
        W == Dot(Inv(C.val), T(B.val))
        yfit == [i \in 1..Len(xs) |-> IF i <= Len(ys) THEN ys[i] ELSE 0]
        mu == Dot(T(W), AsArray(yfit))
        sigma == ASub(A.val, Dot(B.val, W))
    IN  IF B.err # "none" THEN Fail(B.err)
        ELSE IF Singular(C.val) THEN Fail("LinAlgError")
        ELSE Return(Squeeze(mu), Squeeze(sigma))

\* conditional that pairs every observed input with the first observed output
conditional_firsty(xn, xs, ys, params) ==
    LET B == exponential_cov(xn, xs, params)
        C == exponential_cov(xs, xs, params)
        A == exponential_cov(xn, xn, params)
        W == Dot(Inv(C.val), T(B.val))
        y1 == [i \in 1..Len(ys) |-> ys[1]]
        mu == Dot(T(W), AsArray(y1))
        sigma == ASub(A.val, Dot(B.val, W))
    IN  IF B.err # "none" THEN Fail(B.err)
        ELSE IF Singular(C.val) THEN Fail("LinAlgError")
        ELSE IF ~DotAligned(T(W), AsArray(y1)) THEN Fail("ValueError")
        ELSE Return(Squeeze(mu), Squeeze(sigma))

conditional(xn, xs, ys, params) ==
    LET B == exponential_cov(xn, xs, params)
        C == exponential_cov(xs, xs, params)
        A == exponential_cov(xn, xn, params)
        W == Dot(Inv(C.val), T(B.val))
        mu == Dot(T(W), AsArray(ys))
        sigma == ASub(A.val, Dot(B.val, W))
    IN  IF B.err # "none" THEN Fail(B.err)
        ELSE IF Singular(C.val) THEN Fail("LinAlgError")
        ELSE IF ~DotAligned(T(W), AsArray(ys)) THEN Fail("ValueError")
        ELSE Return(Squeeze(mu), Squeeze(sigma))

\* kern is the function object passed as kernel: kern[u, v, p] is kernel(u, v, p)
predict(q, data, kern, params, sigma, t) ==
    LET k == Stack([i \in 1..Len(data) |-> kern[q, data[i], params].val])
        Sinv == Inv(sigma)
        kS == Dot(k, Sinv)
        y_pred == Dot(kS, AsArray(t))
        kqq == kern[q, q, params]
        sigma_new == ASub(kqq.val, Dot(kS, k))
    IN  IF data # <<>> /\ kern[q, data[1], params].err # "none"
        THEN Fail(kern[q, data[1], params].err)
        ELSE IF Singular(sigma) THEN Fail("LinAlgError")
        ELSE IF ~DotAligned(k, Sinv) \/ ~DotAligned(kS, AsArray(t)) THEN Fail("ValueError")
        ELSE IF kqq.err # "none" THEN Fail(kqq.err)
        ELSE Return(y_pred, sigma_new)

(***************************************************************************)
(* The calls.  ret records the last call: the function, its point          *)
(* arguments a and b, the exception or "none", and the values returned.    *)
(***************************************************************************)
Ret(op, a, b, res, out1, out2) ==
    [op |-> op, a |-> a, b |-> b, err |-> res, out1 |-> out1, out2 |-> out2]

\* no cell of the notebook has run: the names it assigns are not bound yet
Unbound ==
    /\ sigma_0 = NoArr /\ sigma_1 = NoArr /\ sigma_2 = NoArr /\ sigma_more = NoArr
    /\ y2 = 0 /\ y_more = <<>> /\ predictions = <<>>
    /\ passed = [data |-> <<>>, sigma |-> NoArr, t |-> <<>>]

Init ==
    /\ x_new \in Ascending(Points, MaxNew)
    /\ x \in SeqsUpTo(Points, MaxObs)
    /\ y \in SeqsUpTo(Outputs, MaxObs)
    /\ theta \in ThetasCond
    /\ ret = Ret("none", <<>>, <<>>, "none", NoArr, NoArr)
    /\ pc = "call" /\ Unbound

\* the inputs of the calls of exponential_cov alone
InitCov ==
    /\ x_new \in SeqsUpTo(Points, MaxNew)
    /\ x \in SeqsUpTo(Points, MaxObs)
    /\ y = <<>>
    /\ theta \in Thetas
    /\ ret = Ret("none", <<>>, <<>>, "none", NoArr, NoArr)
    /\ pc = "call" /\ Unbound

\* exponential_cov(a, b, theta) on the point lists, as conditional calls it
CallExponentialCov ==
    /\ ret.op = "none"
    /\ \E ab \in {<<x_new, x>>, <<x, x>>, <<x_new, x_new>>} :
          LET r == exponential_cov(ab[1], ab[2], theta)
          IN  ret' = Ret("exponential_cov", ab[1], ab[2], r.err, r.val, NoArr)
    /\ UNCHANGED <<x_new, x, y, theta, cells>>

\* exponential_cov(u, v, theta) on two scalars, as sigma_0 and predict call it
CallKernel ==
    /\ ret.op = "none"
    /\ \E u \in Points, v \in Points :
          LET r == kernel(u, v, theta)
          IN  ret' = Ret("kernel", <<u>>, <<v>>, r.err, r.val, NoArr)
    /\ UNCHANGED <<x_new, x, y, theta, cells>>

\* conditional(x_new, x, y, theta)
CallConditional ==
    /\ ret.op = "none"
    /\ LET r == conditional(x_new, x, y, theta)
       IN  ret' = Ret("conditional", x_new, x, r.err, r.mu, r.sigma)
    /\ UNCHANGED <<x_new, x, y, theta, cells>>

\* the function exponential_cov, as the argument kernel of predict
KernelArg == [u \in Points, v \in Points, p \in ThetasCond |-> kernel(u, v, p)]

\* predict(x_new[0], x, exponential_cov, theta, exponential_cov(x, x, theta), y),
\* the call the notebook makes for each point i of x_pred
CallPredict ==
    /\ ret.op = "none"
    /\ Len(x_new) = 1
    /\ LET s == exponential_cov(x, x, theta)
           r == IF s.err # "none" THEN Fail(s.err)
                ELSE predict(x_new[1], x, KernelArg, theta, s.val, y)
       IN  ret' = Ret("predict", x_new, x, r.err, r.mu, r.sigma)
    /\ UNCHANGED <<x_new, x, y, theta, cells>>

Next ==
    \/ CallConditional
    \/ CallPredict

NextCov ==
    \/ CallExponentialCov
    \/ CallKernel

\* the calls of conditional and predict on every input within the bounds
Spec == Init /\ [][Next]_vars

\* the calls of exponential_cov on every input within the bounds
SpecCov == InitCov /\ [][NextCov]_vars

(***************************************************************************)
(* The sequential-sampling section of the notebook, run from top to        *)
(* bottom, one statement a step.  The literals of the notebook (the first  *)
(* point 1., the second point -0.7, the five points of x_more, theta) are  *)
(* drawn from small sets of distinct points and well-formed                *)
(* hyperparameters; a draw of np.random is any value of Outputs.  A        *)
(* statement that raises ends the run (pc = "raised").                     *)
(***************************************************************************)
NbPoints == {0, 1, 2, 3}
NbThetas == { <<1, 1>>, <<2, 1>> }

\* the points of the prediction grid np.linspace(-3, 3, 1000)
x_pred == <<0, 1, 2, 3>>

\* the function exponential_cov, as the argument kernel of the notebook's
\* predict calls
KernelNb == [u \in NbPoints, v \in NbPoints, p \in NbThetas |-> kernel(u, v, p)]

Range(l) == { l[i] : i \in 1..Len(l) }

\* the list l after l.append(e)
list_append(l, e) == Append(l, e)

\* the list l after l += more
list_iadd_rebind(l, more) == more
list_iadd(l, more) == l \o more

\* [predict(i, data, exponential_cov, theta, sigma, t) for i in x_pred]
PredictEach(data, sigma, t) ==
    Entries([i \in 1..Len(x_pred) |-> predict(x_pred[i], data, KernelNb, theta, sigma, t)],
            Len(x_pred))

Raises(results) == \E i \in 1..Len(results) : results[i].err # "none"

InitNotebook ==
    /\ theta \in NbThetas
    /\ sigma_0 = kernel(0, 0, theta).val
    /\ x_new = <<>> /\ x = <<>> /\ y = <<>>
    /\ ret = Ret("none", <<>>, <<>>, "none", NoArr, NoArr)
    /\ pc = "x"
    /\ sigma_1 = NoArr /\ sigma_2 = NoArr /\ sigma_more = NoArr
    /\ y2 = 0 /\ y_more = <<>> /\ predictions = <<>>
    /\ passed = [data |-> <<>>, sigma |-> NoArr, t |-> <<>>]

\* x = [1.]
AssignX ==
    /\ pc = "x"
    /\ \E a \in NbPoints : x' = <<a>>
    /\ pc' = "y"
    /\ UNCHANGED <<x_new, y, theta, ret, sigma_0, sigma_1, sigma_2, sigma_more,
                   y2, y_more, predictions, passed>>

\* y = [np.random.normal(scale=sigma_0)]
SampleY ==
    /\ pc = "y"
    /\ \E o \in Outputs : y' = <<o>>
    /\ pc' = "sigma_1"
    /\ UNCHANGED <<x_new, x, theta, ret, sigma_0, sigma_1, sigma_2, sigma_more,
                   y2, y_more, predictions, passed>>

\* sigma_1 = exponential_cov(x, x, theta)
Sigma1 ==
    /\ pc = "sigma_1"
    /\ LET r == exponential_cov(x, x, theta)
       IN  /\ ret' = Ret("exponential_cov", x, x, r.err, r.val, NoArr)
           /\ sigma_1' = IF r.err = "none" THEN r.val ELSE sigma_1
           /\ pc' = IF r.err = "none" THEN "predictions_1" ELSE "raised"
    /\ UNCHANGED <<x_new, x, y, theta, sigma_0, sigma_2, sigma_more,
                   y2, y_more, predictions, passed>>

\* predictions = [predict(i, x, exponential_cov, theta, sigma_1, y) for i in x_pred]
Predictions1_inplace ==
    /\ pc = "predictions_1"
    /\ LET r == PredictEach(x, sigma_1, y)
       IN  /\ passed' = [data |-> x, sigma |-> sigma_1, t |-> y]
           /\ predictions' = IF Raises(r) THEN predictions ELSE r
           /\ pc' = IF Raises(r) THEN "raised" ELSE "m, s"
    /\ sigma_1' = Inv(sigma_1)
    /\ UNCHANGED <<x_new, x, y, theta, ret, sigma_0, sigma_2, sigma_more,
                   y2, y_more>>

Predictions1 ==
    /\ pc = "predictions_1"
    /\ LET r == PredictEach(x, sigma_1, y)
       IN  /\ passed' = [data |-> x, sigma |-> sigma_1, t |-> y]
           /\ predictions' = IF Raises(r) THEN predictions ELSE r
           /\ pc' = IF Raises(r) THEN "raised" ELSE "m, s"
    /\ UNCHANGED <<x_new, x, y, theta, ret, sigma_0, sigma_1, sigma_2, sigma_more,
                   y2, y_more>>

\* m, s = conditional([-0.7], x, y, theta)
Conditional1 ==
    /\ pc = "m, s"
    /\ \E b \in NbPoints \ Range(x) :
          LET r == conditional(<<b>>, x, y, theta)
          IN  /\ x_new' = <<b>>
              /\ ret' = Ret("conditional", <<b>>, x, r.err, r.mu, r.sigma)
              /\ pc' = IF r.err = "none" THEN "y2" ELSE "raised"
    /\ UNCHANGED <<x, y, theta, sigma_0, sigma_1, sigma_2, sigma_more,
                   y2, y_more, predictions, passed>>

\* y2 = np.random.normal(m, s)
SampleY2 ==
    /\ pc = "y2"
    /\ y2' \in Outputs
    /\ pc' = "x.append"
    /\ UNCHANGED <<x_new, x, y, theta, ret, sigma_0, sigma_1, sigma_2, sigma_more,
                   y_more, predictions, passed>>

\* x.append(-0.7)
AppendX ==
    /\ pc = "x.append"
    /\ x' = list_append(x, x_new[1])
    /\ pc' = "y.append"
    /\ UNCHANGED <<x_new, y, theta, ret, sigma_0, sigma_1, sigma_2, sigma_more,
                   y2, y_more, predictions, passed>>

\* y.append(y2)
AppendY ==
    /\ pc = "y.append"
    /\ y' = list_append(y, y2)
    /\ pc' = "sigma_2"
    /\ UNCHANGED <<x_new, x, theta, ret, sigma_0, sigma_1, sigma_2, sigma_more,
                   y2, y_more, predictions, passed>>

\* sigma_2 left as sigma_1, the matrix of the set before the append
Sigma2_stale ==
    /\ pc = "sigma_2"
    /\ ret' = Ret("exponential_cov", x, x, "none", sigma_1, NoArr)
    /\ sigma_2' = sigma_1
    /\ pc' = "predictions_2"
    /\ UNCHANGED <<x_new, x, y, theta, sigma_0, sigma_1, sigma_more,
                   y2, y_more, predictions, passed>>

\* sigma_2 = exponential_cov(x, x, theta)
Sigma2 ==
    /\ pc = "sigma_2"
    /\ LET r == exponential_cov(x, x, theta)
       IN  /\ ret' = Ret("exponential_cov", x, x, r.err, r.val, NoArr)
           /\ sigma_2' = IF r.err = "none" THEN r.val ELSE sigma_2
           /\ pc' = IF r.err = "none" THEN "predictions_2" ELSE "raised"
    /\ UNCHANGED <<x_new, x, y, theta, sigma_0, sigma_1, sigma_more,
                   y2, y_more, predictions, passed>>

\* predictions = [predict(i, x, exponential_cov, theta, sigma_2, y) for i in x_pred]
Predictions2 ==
    /\ pc = "predictions_2"
    /\ LET r == PredictEach(x, sigma_2, y)
       IN  /\ passed' = [data |-> x, sigma |-> sigma_2, t |-> y]
           /\ predictions' = IF Raises(r) THEN predictions ELSE r
           /\ pc' = IF Raises(r) THEN "raised" ELSE "mu, s"
    /\ UNCHANGED <<x_new, x, y, theta, ret, sigma_0, sigma_1, sigma_2, sigma_more,
                   y2, y_more>>

\* x_more = [-2.1, -1.5, 0.3, 1.8, 2.5]; mu, s = conditional(x_more, x, y, theta).
\* x_more has two points or more: np.random.multivariate_normal takes the 1-d
\* mean and 2-d covariance that conditional's squeeze leaves only then.
ConditionalMore ==
    /\ pc = "mu, s"
    /\ \E x_more \in { l \in Ascending(NbPoints \ Range(x), MaxNew) : Len(l) >= 2 } :
          LET r == conditional(x_more, x, y, theta)
          IN  /\ x_new' = x_more
              /\ ret' = Ret("conditional", x_more, x, r.err, r.mu, r.sigma)
              /\ pc' = IF r.err = "none" THEN "y_more" ELSE "raised"
    /\ UNCHANGED <<x, y, theta, sigma_0, sigma_1, sigma_2, sigma_more,
                   y2, y_more, predictions, passed>>

\* y_more = np.random.multivariate_normal(mu, s)
SampleYMore ==
    /\ pc = "y_more"
    /\ y_more' \in [1..Len(x_new) -> Outputs]
    /\ pc' = "x +="
    /\ UNCHANGED <<x_new, x, y, theta, ret, sigma_0, sigma_1, sigma_2, sigma_more,
                   y2, predictions, passed>>

\* x += x_more
ExtendX ==
    /\ pc = "x +="
    /\ x' = list_iadd(x, x_new)
    /\ pc' = "y +="
    /\ UNCHANGED <<x_new, y, theta, ret, sigma_0, sigma_1, sigma_2, sigma_more,
                   y2, y_more, predictions, passed>>

\* y += y_more.tolist()
ExtendY ==
    /\ pc = "y +="
    /\ y' = list_iadd(y, y_more)
    /\ pc' = "sigma_new"
    /\ UNCHANGED <<x_new, x, theta, ret, sigma_0, sigma_1, sigma_2, sigma_more,
                   y2, y_more, predictions, passed>>

\* sigma_new = exponential_cov(x, x, theta) (sigma_more here: predict has a
\* local of that name)
SigmaNew ==
    /\ pc = "sigma_new"
    /\ LET r == exponential_cov(x, x, theta)
       IN  /\ ret' = Ret("exponential_cov", x, x, r.err, r.val, NoArr)
           /\ sigma_more' = IF r.err = "none" THEN r.val ELSE sigma_more
           /\ pc' = IF r.err = "none" THEN "predictions_new" ELSE "raised"
    /\ UNCHANGED <<x_new, x, y, theta, sigma_0, sigma_1, sigma_2,
                   y2, y_more, predictions, passed>>

\* predictions = [predict(i, x, exponential_cov, theta, sigma_new, y) for i in x_pred]
PredictionsNew ==
    /\ pc = "predictions_new"
    /\ LET r == PredictEach(x, sigma_more, y)
       IN  /\ passed' = [data |-> x, sigma |-> sigma_more, t |-> y]
           /\ predictions' = IF Raises(r) THEN predictions ELSE r
           /\ pc' = IF Raises(r) THEN "raised" ELSE "done"
    /\ UNCHANGED <<x_new, x, y, theta, ret, sigma_0, sigma_1, sigma_2, sigma_more,
                   y2, y_more>>

NextNotebook ==
    \/ AssignX
    \/ SampleY
    \/ Sigma1
    \/ Predictions1
    \/ Conditional1
    \/ SampleY2
    \/ AppendX
    \/ AppendY
    \/ Sigma2
    \/ Predictions2
    \/ ConditionalMore
    \/ SampleYMore
    \/ ExtendX
    \/ ExtendY
    \/ SigmaNew
    \/ PredictionsNew

\* one realization of the sequential sampling
SpecNotebook == InitNotebook /\ [][NextNotebook]_vars

(***************************************************************************)
(* The properties.  What the claims say is written with the definitions    *)
(* below, apart from the definitions that model the code.                  *)
(***************************************************************************)
\* theta_0 * exp(-theta_1/2 * (u - v)^2)
KernelFormula(u, v, th) == RMul(FromInt(th[1]), NpExp(-(th[2] * ((u - v) * (u - v)))))

\* the observed-observed covariance K(x, x, theta)
Kxx == exponential_cov(x, x, theta).val

\* the hyperparameter list has its two entries, both positive
ValidTheta == Len(theta) = 2 /\ theta[1] > 0 /\ theta[2] > 0

\* the array of n zeros
Zeros(n) == Arr(<<n>>, Entries([i \in 1..n |-> Zero], n))

\* C1: when theta has its two entries, C = K(x, x, theta) is invertible and y
\* is as long as x, conditional(x_new, x, y, theta) returns the mean
\* B . C^-1 . y and the covariance A - B . C^-1 . B^T (squeezed), with
\* B = K(x_new, x, theta) and A = K(x_new, x_new, theta).
C1_ConditionalFormula ==
    (ret.op = "conditional" /\ Len(theta) >= 2 /\ Len(y) = Len(x) /\ ~Singular(Kxx)) =>
        LET B == exponential_cov(x_new, x, theta).val
            A == exponential_cov(x_new, x_new, theta).val
            BCinv == Dot(B, Inv(Kxx))
        IN  /\ ret.err = "none"
            /\ ret.out1 = Squeeze(Dot(BCinv, AsArray(y)))
            /\ ret.out2 = Squeeze(ASub(A, Dot(BCinv, T(B))))

C1_Witness ==
    /\ ret.op = "conditional" /\ ret.err = "none"
    /\ Len(x) = 2 /\ Len(y) = 2 /\ Len(x_new) = 2
    /\ theta = <<2, 1>>
    /\ ret.out1 # Zeros(2)

\* C2: for a single query point, predict(q, x, exponential_cov, theta,
\* K(x, x, theta), y) and conditional([q], x, y, theta) both return or both
\* raise, and when they return the means are equal and the variances are equal.
C2_PredictEqualsConditional ==
    ret.op = "predict" =>
        LET c == conditional(x_new, x, y, theta)
        IN  /\ (ret.err = "none") <=> (c.err = "none")
            /\ ret.err = "none" => (ret.out1 = c.mu /\ ret.out2 = c.sigma)

C2_Witness ==
    /\ ret.op = "predict" /\ ret.err = "none"
    /\ x = <<2, 0>> /\ x_new = <<1>> /\ Len(y) = 2
    /\ theta = <<2, 1>>
    /\ ret.out1 # Scalar(Zero)

\* C3: exponential_cov(A, B, theta) on lists of m and n points returns an
\* m x n array whose entry [i][j] is theta_0 * exp(-theta_1/2 * (A[i] - B[j])^2).
C3_CovEntries ==
    (ret.op = "exponential_cov" /\ Len(theta) >= 2) =>
        /\ ret.err = "none"
        /\ ret.out1.shape = <<Len(ret.a), Len(ret.b)>>
        /\ Len(ret.out1.v) = Len(ret.a) * Len(ret.b)
        /\ \A i \in 1..Len(ret.a), j \in 1..Len(ret.b) :
              At(ret.out1, i, j) = KernelFormula(ret.a[i], ret.b[j], theta)

C3_Witness ==
    /\ ret.op = "exponential_cov" /\ ret.err = "none"
    /\ ret.a = <<0>> /\ ret.b = <<1, 2>>
    /\ theta = <<2, 1>>
    /\ ret.out1 = Arr(<<1, 2>>, << <<1, 1>>, <<1, 8>> >>)

\* C4: for a point list P and valid hyperparameters, exponential_cov(P, P, theta)
\* is symmetric.
C4_CovSymmetric ==
    (ret.op = "exponential_cov" /\ ret.a = ret.b /\ ValidTheta) =>
        /\ ret.err = "none"
        /\ \A i \in 1..Len(ret.a), j \in 1..Len(ret.a) :
              At(ret.out1, i, j) = At(ret.out1, j, i)

C4_Witness ==
    /\ ret.op = "exponential_cov" /\ ret.err = "none"
    /\ ret.a = ret.b /\ ret.a = <<2, 1>>
    /\ ValidTheta
    /\ At(ret.out1, 1, 2) # At(ret.out1, 1, 1)

\* C5: kernel(u, u, theta) is theta_0, and every diagonal entry of
\* exponential_cov(P, P, theta) is theta_0, wherever the points are.
C5_SelfCovariance ==
    /\ (ret.op = "kernel" /\ ret.a = ret.b /\ Len(theta) >= 2) =>
          (ret.err = "none" /\ ret.out1 = Scalar(FromInt(theta[1])))
    /\ (ret.op = "exponential_cov" /\ ret.a = ret.b /\ Len(theta) >= 2) =>
          (ret.err = "none" /\ \A i \in 1..Len(ret.a) : At(ret.out1, i, i) = FromInt(theta[1]))

C5_Witness ==
    /\ ret.op = "kernel" /\ ret.err = "none"
    /\ ret.a = <<0>> /\ ret.b = <<0>>
    /\ theta = <<1, 1>>
    /\ ret.out1 = Scalar(FromInt(1))

\* C6: conditioning on an empty observed set returns the mean 0 at every query
\* point and the prior covariance K(x_new, x_new, theta).
C6_EmptyObserved ==
    (ret.op = "conditional" /\ x = <<>> /\ y = <<>> /\ Len(theta) >= 2) =>
        /\ ret.err = "none"
        /\ ret.out1 = Squeeze(Zeros(Len(x_new)))
        /\ ret.out2 = Squeeze(exponential_cov(x_new, x_new, theta).val)

C6_Witness ==
    /\ ret.op = "conditional" /\ ret.err = "none"
    /\ x = <<>> /\ y = <<>> /\ x_new = <<0, 1>>
    /\ theta = <<2, 1>>
    /\ ret.out2 = Arr(<<2, 2>>, << <<2, 1>>, <<1, 1>>, <<1, 1>>, <<2, 1>> >>)

\* C7: with one observed pair (x0, y0), a nonzero amplitude, and the single
\* query point x0, conditional returns the mean y0 and the variance 0.
C7_QueryAtObserved ==
    (/\ ret.op = "conditional"
     /\ Len(x) = 1 /\ Len(y) = 1 /\ x_new = x
     /\ Len(theta) >= 2 /\ theta[1] # 0) =>
        /\ ret.err = "none"
        /\ ret.out1 = Scalar(FromInt(y[1]))
        /\ ret.out2 = Scalar(Zero)

C7_Witness ==
    /\ ret.op = "conditional" /\ ret.err = "none"
    /\ x = <<1>> /\ x_new = <<1>> /\ y = <<2>>
    /\ theta = <<2, 1>>
    /\ ret.out1 = Scalar(FromInt(2))

\* the observed point xs[k] is near the query point q: their covariance is not 0
Near(q, k) == KernelFormula(q, x[k], theta) # Zero

\* the variance returned for query point i: the diagonal entry i of the
\* covariance, which is a 0-d array when there is one query point
Variance(i) == ret.out2.v[(i - 1) * Len(x_new) + i]

\* C8: with valid hyperparameters, once conditional or predict has returned for
\* an observed set with a point near a query point, the variance returned for
\* that query point is strictly less than the prior variance theta_0.
C8_VarianceShrinks ==
    (ret.op \in {"conditional", "predict"} /\ ret.err = "none" /\ ValidTheta) =>
        \A i \in 1..Len(x_new) :
            (\E k \in 1..Len(x) : Near(x_new[i], k)) =>
                RLess(Variance(i), FromInt(theta[1]))

C8_Witness ==
    /\ ret.op = "conditional" /\ ret.err = "none"
    /\ x = <<0, 1>> /\ x_new = <<0, 2>> /\ Len(y) = 2
    /\ theta = <<2, 1>>
    /\ Near(2, 1)
    /\ RLess(Zero, Variance(2))

\* the hyperparameter list is malformed: not two entries, or an entry that is
\* not positive
Malformed(th) == Len(th) # 2 \/ \E k \in 1..Len(th) : th[k] <= 0

\* C9: exponential_cov fails, and returns no array, whenever the
\* hyperparameter list is malformed.
C9_MalformedFails ==
    (ret.op \in {"exponential_cov", "kernel"} /\ Malformed(theta)) => ret.err # "none"

\* C10 as stated, for well-formed hyperparameters: conditional or predict on
\* observed inputs and outputs of different lengths ends in the shape-mismatch
\* error (np.dot's ValueError).
C10_MismatchIsShapeError ==
    (ret.op \in {"conditional", "predict"} /\ ValidTheta /\ Len(x) # Len(y)) =>
        ret.err = "ValueError"

\* C10 as amended: such a call ends in an exception and returns nothing; the
\* exception is the shape mismatch unless an earlier step of the call raises:
\* IndexError on a hyperparameter list shorter than 2, else LinAlgError on a
\* singular K(x, x, theta).
C10_MismatchRaises ==
    (ret.op \in {"conditional", "predict"} /\ Len(x) # Len(y)) =>
        ret.err = IF Len(theta) < 2 THEN "IndexError"
                  ELSE IF Singular(Kxx) THEN "LinAlgError"
                  ELSE "ValueError"

C10_Witness ==
    /\ ret.op = "conditional" /\ ret.err = "ValueError"
    /\ x = <<0, 1>> /\ y = <<2>>
    /\ theta = <<1, 1>>

\* the list l is the beginning of the list m
Prefix(l, m) == Len(l) <= Len(m) /\ SubSeq(m, 1, Len(l)) = l

\* C11: every step of one realization (the first sample, the single-point
\* append, the batch append and every statement between them) keeps each
\* observed input and each observed output it finds, with its value and at its
\* position: x and y before the step begin x and y after it.
C11_ObservedOnlyGrows ==
    [][Prefix(x, x') /\ Prefix(y, y')]_vars

\* the realization has run to its end through the three extensions: the first
\* pair, the appended pair and the batch are in x and y, in that order
C11_Witness ==
    /\ pc = "done"
    /\ Len(x) = 4 /\ Len(y) = 4
    /\ x = <<1, 0, 2, 3>>
    /\ SubSeq(y, 2, 2) = <<y2>> /\ SubSeq(y, 3, 4) = y_more
    /\ y[1] # y[2]

\* the statements that call exponential_cov, conditional and predict
CovSteps == {"sigma_1", "sigma_2", "sigma_new"}
ConditionalSteps == {"m, s", "mu, s"}
PredictSteps == {"predictions_1", "predictions_2", "predictions_new"}

\* C12: a statement that calls exponential_cov, conditional or predict leaves
\* the observed inputs x and outputs y as they are; a call of conditional or
\* predict leaves every covariance matrix computed so far as it is, and a call
\* of exponential_cov every one but the name its result is assigned to; no
\* step of the realization changes the hyperparameter list theta.
C12_NoSideEffects ==
    [][/\ theta' = theta
       /\ pc \in CovSteps \cup ConditionalSteps \cup PredictSteps =>
             (x' = x /\ y' = y /\ sigma_0' = sigma_0)
       /\ pc \in ConditionalSteps \cup PredictSteps =>
             (sigma_1' = sigma_1 /\ sigma_2' = sigma_2 /\ sigma_more' = sigma_more)
       /\ pc = "sigma_1" => (sigma_2' = sigma_2 /\ sigma_more' = sigma_more)
       /\ pc = "sigma_2" => (sigma_1' = sigma_1 /\ sigma_more' = sigma_more)
       /\ pc = "sigma_new" => (sigma_1' = sigma_1 /\ sigma_2' = sigma_2)]_vars

\* exponential_cov, predict and conditional have each been called on the two
\* observed pairs, and sigma_2 is still K(x, x, theta)
C12_Witness ==
    /\ pc = "y_more"
    /\ ret.op = "conditional" /\ ret.err = "none"
    /\ Len(predictions) = Len(x_pred)
    /\ Len(x) = 2 /\ passed.data = x /\ passed.sigma = sigma_2
    /\ sigma_2 = Kxx
    /\ theta = <<2, 1>>

\* the orderings of n observed pairs
Permutations(n) == { p \in [1..n -> 1..n] : \A i, j \in 1..n : p[i] = p[j] => i = j }

\* the list l and the square matrix s in the order p
Permuted(l, p) == [i \in 1..Len(l) |-> l[p[i]]]
PermutedCov(s, p) ==
    Mat(Len(p), Len(p), [i \in 1..Len(p), j \in 1..Len(p) |-> At(s, p[i], p[j])])

\* C13: with as many observed outputs as inputs, conditional on x and y put in
\* any other order (the same for both) ends as it did on x and y: the same
\* exception, or the same mean and covariance; and so does predict on x, y and
\* sigma = K(x, x, theta) put in that order (the rows and the columns of sigma).
C13_OrderOfPairs ==
    (ret.op \in {"conditional", "predict"} /\ Len(x) = Len(y)) =>
        \A p \in Permutations(Len(x)) :
            LET s == exponential_cov(x, x, theta)
                r == IF ret.op = "conditional"
                     THEN conditional(x_new, Permuted(x, p), Permuted(y, p), theta)
                     ELSE IF s.err # "none" THEN Fail(s.err)
                     ELSE predict(x_new[1], Permuted(x, p), KernelArg, theta,
                                  PermutedCov(s.val, p), Permuted(y, p))
            IN  r.err = ret.err /\ r.mu = ret.out1 /\ r.sigma = ret.out2

\* conditional has returned a mean that depends on the pairing: two different
\* observed points with different outputs, and a query point nearer to one
C13_Witness ==
    /\ ret.op = "conditional" /\ ret.err = "none"
    /\ x = <<0, 2>> /\ y = <<2, -1>> /\ x_new = <<0>>
    /\ theta = <<1, 1>>
    /\ conditional(x_new, x, <<-1, 2>>, theta).mu # ret.out1
    /\ conditional(x_new, <<2, 0>>, <<-1, 2>>, theta).mu = ret.out1

\* C14: every predict call of the realization is made with the whole current
\* observed set, inputs and outputs of one length, and with the sigma that is
\* K(x, x, theta) of that set: the matrix was recomputed after the last
\* extension of x and y.
C14_PredictWithCurrentSigma ==
    [][(pc \in PredictSteps) =>
          (/\ passed'.data = x /\ passed'.t = y
           /\ Len(passed'.data) = Len(passed'.t)
           /\ passed'.sigma = Kxx)]_vars

\* the last predictions have been made, on the four pairs, with a matrix that
\* is neither of the two computed before
C14_Witness ==
    /\ pc = "done"
    /\ Len(predictions) = Len(x_pred)
    /\ Len(passed.data) = 4 /\ passed.sigma.shape = <<4, 4>>
    /\ passed.sigma = sigma_more
    /\ sigma_more # sigma_2 /\ sigma_2 # sigma_1
    /\ sigma_1.shape = <<1, 1>> /\ sigma_2.shape = <<2, 2>>
    /\ theta = <<1, 1>>

====
